---- MODULE Spec2Model ----
(***************************************************************************)
(* Model of kernels/portable/cpu/op_bmm.cpp: the batched matrix product    *)
(* bmm.out(self, mat2, out).  One behaviour is one process that calls      *)
(* bmm_out on fixed inputs and, after a successful return, may call it     *)
(* again with the same inputs and the out tensor the first call left.      *)
(*                                                                         *)
(* A tensor is a record [sizes, dtype, data]: sizes is the shape, data the *)
(* flat row-major buffer (data[k + 1] is element offset k).  out carries   *)
(* in addition its shape dynamism; Len(out.data) is the capacity of its    *)
(* storage, which resize_tensor never changes.                             *)
(***************************************************************************)
EXTENDS Integers, Sequences, FiniteSets, TLC

\* ------------------------------------------------------------------ bounds
MaxDim == 2      \* largest extent of one dimension of an input
MaxNumel == 4    \* largest element count of a tensor whose data is enumerated
MaxRank == 4     \* largest rank of a tensor
MaxCalls == 2    \* calls of bmm_out in one behaviour

\* Values an element of self or mat2 may hold (16 * 16 overflows 8 bits).
Vals == {1, 16}
\* Values found in memory the call did not initialise: the caller's fill of
\* out, a word past the end of a buffer, an unset slot of a stack array.
Garbage == {0, 7}

\* ------------------------------------------------------------ scalar types
\* ET_FORALL_REAL_TYPES: the types the switch of bmm_out has a case for.
RealTypes == {"Byte", "Char", "Short", "Int", "Long", "Float", "Double"}

\* A value of type c after an assignment: 8 and 16 bit integers keep their
\* width; Int, Long and the floating types are exact on the values the
\* bounds reach (a signed 32/64 bit overflow needs a sum above 2^31).
Wrap(c, v) ==
  CASE c = "Byte" -> v % 256
    [] c = "Char" -> ((v + 128) % 256) - 128
    [] c = "Short" -> ((v + 32768) % 65536) - 32768
    [] OTHER -> v

\* ------------------------------------------------------------ Tensor
RECURSIVE Prod(_)
Prod(s) == IF s = << >> THEN 1 ELSE Head(s) * Prod(Tail(s))

dim(t) == Len(t.sizes)
numel(t) == Prod(t.sizes)
\* Tensor::size(d), d counted from 0; it is a fatal check that d < dim().
SizeInRange(t, d) == d >= 0 /\ d < dim(t)
size(t, d) == t.sizes[d + 1]

VARIABLES
  self,     \* the first input, read only
  mat2,     \* the second input, read only
  out,      \* the output tensor
  pc,       \* position of the call: "resize", "check", "dtype", "dispatch",
            \* "kernel", "loop", "done", "abort" (a failed ET_CHECK) or
            \* "fault" (a read outside a buffer trapped)
  i,        \* the batch index of bmm_kernel's loop
  ctype,    \* CTYPE of the running bmm_kernel instantiation, or "none"
  kernels,  \* bmm_kernel instantiations entered in this call
  written,  \* element offsets of out written in this call
  rdSelf,   \* element offsets read through x_data in this call
  rdMat2,   \* element offsets read through y_data in this call
  phases,   \* the phases this call has entered, in order
  err,      \* what resize_tensor returned in this call, or "none"
  failed,   \* the check that aborted this call, or "none"
  call,     \* number of the current call, from 1
  first     \* out as the first call returned it (out itself before that)

vars == <<self, mat2, out, pc, i, ctype, kernels, written, rdSelf, rdMat2,
          phases, err, failed, call, first>>

\* ------------------------------------------------------------------ inputs
Fill(n, v) == [k \in 1..n |-> v]
\* A buffer whose element at offset k holds k + 1.
Ramp(n) == [k \in 1..n |-> k]

Input(sizes, dtype, data) == [sizes |-> sizes, dtype |-> dtype, data |-> data]
\* out as the caller passes it: its storage holds Prod(sizes) elements, all g.
Output(sizes, dtype, dynamism, g) ==
  [sizes |-> sizes, dtype |-> dtype, data |-> Fill(Prod(sizes), g),
   dynamism |-> dynamism]

Dynamism == {"STATIC", "DYNAMIC_BOUND"}

\* Rank 3 shapes within the bounds.
Shapes3 == {s \in [1..3 -> 0..MaxDim] : Prod(s) <= MaxNumel}
\* Shapes of every rank from 0 to MaxRank, all extents equal.
RankShapes == {[k \in 1..r |-> d] : r \in 0..MaxRank, d \in 1..MaxDim}
\* A few rank 3 shapes: agreeing and disagreeing batches and inner extents.
FewShapes == {<<1, 1, 1>>, <<2, 1, 1>>, <<1, 2, 1>>, <<1, 1, 2>>, <<0, 1, 1>>}
\* The element types the inputs are drawn from where the types vary.
FewTypes == {"Byte", "Float", "Bool"}

\* The shapes out is passed with, for inputs self and mat2 of rank 3: the
\* shape of the product already, a larger storage, a smaller one.
OutShapes(s, m) == {<<s[1], s[2], m[3]>>, <<MaxNumel, 1, 1>>, <<1, 1, 1>>}

\* Same type, shapes (b,n,m) and (b,m,p), every content of self and mat2.
InitValues ==
  \E b \in 0..MaxDim, n \in 0..MaxDim, m \in 0..MaxDim, p \in 0..MaxDim :
    /\ b * n * m <= MaxNumel /\ b * m * p <= MaxNumel /\ b * n * p <= MaxNumel
    /\ \E d \in {"Byte", "Char"}, g \in Garbage,
          xs \in [1..(b * n * m) -> Vals], ys \in [1..(b * m * p) -> Vals],
          os \in OutShapes(<<b, n, m>>, <<b, m, p>>), dy \in Dynamism :
         /\ self = Input(<<b, n, m>>, d, xs)
         /\ mat2 = Input(<<b, m, p>>, d, ys)
         /\ out = Output(os, d, dy, g)

\* Same type, every pair of rank 3 shapes, agreeing or not.
InitShapes ==
  \E s \in Shapes3, m \in Shapes3, dy \in Dynamism :
    \E os \in OutShapes(s, m) :
      /\ self = Input(s, "Float", Ramp(Prod(s)))
      /\ mat2 = Input(m, "Float", Ramp(Prod(m)))
      /\ out = Output(os, "Float", dy, 7)

\* Same type, every combination of ranks.
InitRanks ==
  \E s \in RankShapes, m \in RankShapes, o \in RankShapes, dy \in Dynamism :
    /\ self = Input(s, "Int", Ramp(Prod(s)))
    /\ mat2 = Input(m, "Int", Ramp(Prod(m)))
    /\ out = Output(o, "Int", dy, 0)

\* Every combination of element types, on a few shapes.
InitTypes ==
  \E s \in FewShapes, m \in FewShapes, ds \in FewTypes, dm \in FewTypes,
     dout \in FewTypes :
    \E os \in OutShapes(s, m) :
      /\ self = Input(s, ds, Ramp(Prod(s)))
      /\ mat2 = Input(m, dm, Ramp(Prod(m)))
      /\ out = Output(os, dout, "DYNAMIC_BOUND", 7)

\* The state on entry to a call of bmm_out.
Entry ==
  /\ pc = "resize"
  /\ i = 0
  /\ ctype = "none"
  /\ kernels = 0
  /\ written = {}
  /\ rdSelf = {}
  /\ rdMat2 = {}
  /\ phases = << >>
  /\ err = "none"
  /\ failed = "none"

Init ==
  /\ InitValues \/ InitShapes \/ InitRanks \/ InitTypes
  /\ Entry
  /\ call = 1
  /\ first = out

\* ------------------------------------------------- collaborators of the file
\* resize_tensor(out, new_sizes): the error it returns.  The rank cannot
\* change; a static tensor keeps its shape; a dynamic one may take any shape
\* its storage holds.
resize_tensor_err(o, ns) ==
  IF Len(ns) # dim(o) THEN "NotSupported"
  ELSE IF o.dynamism = "STATIC"
       THEN (IF ns = o.sizes THEN "Ok" ELSE "NotSupported")
       ELSE (IF Prod(ns) <= Len(o.data) THEN "Ok" ELSE "NotSupported")

\* resize_tensor(out, new_sizes): out afterwards.  Only the shape changes,
\* the storage keeps what it held.
resize_tensor(o, ns) ==
  IF resize_tensor_err(o, ns) = "Ok" THEN [o EXCEPT !.sizes = ns] ELSE o

\* ET_CHECK_SAME_DTYPE3(a, b, c)
ET_CHECK_SAME_DTYPE3(a, b, c) == a.dtype = b.dtype /\ b.dtype = c.dtype

\* buf[off], a read through a raw pointer: inside the buffer the element,
\* outside it whatever g says the memory there holds.
Load(buf, off, g) == IF off < Len(buf) THEN buf[off + 1] ELSE g[off]

\* vec_matmul's inner loop for the element at row r, column j of z:
\* T sum(0); for k < n: sum += x[r * n + k] * y[k * p + j].
Element(c, x, xo, y, yo, r, j, n, p, gx, gy) ==
  LET sum[k \in 0..n] ==
        IF k = 0 THEN 0
        ELSE Wrap(c, sum[k - 1] + Load(x, xo + r * n + (k - 1), gx)
                                  * Load(y, yo + (k - 1) * p + j, gy))
  IN sum[n]

\* The offsets vec_matmul reads for its e-th element (row e \div p, column
\* e % p), from x and from y.
ReadsX(xo, e, n, p) == {xo + (e \div p) * n + k : k \in 0..(n - 1)}
ReadsY(yo, e, n, p) == {yo + k * p + (e % p) : k \in 0..(n - 1)}

\* vec_matmul<CTYPE>(z, x, y, m, n, p) with z, x, y pointing zo, xo, yo
\* elements into the buffers zb, xb, yb: the set of its outcomes.  It
\* computes the m * p elements of z in row-major order.  A read outside xb or
\* yb is undefined: it yields some value, or the access traps and the loop
\* stops with the earlier elements written.
vec_matmul(c, zb, zo, xb, xo, yb, yo, m, n, p) ==
  LET elems == 0..(m * p - 1)
      rx(e) == ReadsX(xo, e, n, p)
      ry(e) == ReadsY(yo, e, n, p)
      ox == {o \in UNION {rx(e) : e \in elems} : o >= Len(xb)}
      oy == {o \in UNION {ry(e) : e \in elems} : o >= Len(yb)}
      bad == {e \in elems : rx(e) \cap ox # {} \/ ry(e) \cap oy # {}}
      run(gx, gy, upto, trap) ==
        [fault |-> trap,
         z |-> [k \in 1..Len(zb) |->
                  IF (k - 1 - zo) \in 0..(upto - 1)
                  THEN Element(c, xb, xo, yb, yo, (k - 1 - zo) \div p,
                               (k - 1 - zo) % p, n, p, gx, gy)
                  ELSE zb[k]],
         wr |-> {zo + e : e \in 0..(upto - 1)},
         rx |-> UNION {rx(e) : e \in 0..(IF trap THEN upto ELSE upto - 1)},
         ry |-> UNION {ry(e) : e \in 0..(IF trap THEN upto ELSE upto - 1)}]
  IN UNION {
       {run(gx, gy, m * p, FALSE)} \cup {run(gx, gy, e, TRUE) : e \in bad} :
         gx \in [ox -> Garbage], gy \in [oy -> Garbage]}

\* ------------------------------------------------------------ the operator
\* expected_output_size after resize_out_tensor filled it: self's extents
\* but the last, then mat2's extent at self's last dimension.
expected_output_size(s, m) ==
  [k \in 1..dim(s) |-> IF k < dim(s) THEN size(s, k - 1) ELSE size(m, k - 1)]

\* Every size() call of resize_out_tensor is in range.  With dim(s) < 2 the
\* unsigned m_dim wraps and the loop reaches self.size(dim(s)).
resize_sizes_in_range(s, m) == dim(s) >= 2 /\ SizeInRange(m, dim(s) - 1)

\* The ArrayRef output_size: the first out.dim() slots of the array, those
\* past self.dim() never assigned.
output_size(s, m, o) ==
  {[k \in 1..dim(o) |->
      IF k <= dim(s) THEN expected_output_size(s, m)[k] ELSE g[k]] :
     g \in [(dim(s) + 1)..dim(o) -> Garbage]}

\* resize_checked without the comparison: the error of resize_tensor ignored.
resize_unchecked(e) == e \in {"Ok", "NotSupported"}

\* ET_CHECK_MSG(err == Error::Ok, ...) of resize_out_tensor passes.
resize_checked(e) == e = "Ok"

\* check_bmm_out_args without the check of self's batch against mat2's.
check_bmm_out_args_no_batch(s, m, o) ==
  /\ dim(s) = dim(m)
  /\ dim(s) = dim(o)
  /\ dim(s) = 3
  /\ size(s, 0) >= 0
  /\ size(s, 0) = size(o, 0)
  /\ size(m, 2) = size(o, 2)
  /\ size(s, 1) = size(o, 1)

\* check_bmm_out_args: every ET_CHECK_MSG passes.
check_bmm_out_args(s, m, o) ==
  /\ dim(s) = dim(m)
  /\ dim(s) = dim(o)
  /\ dim(s) = 3
  /\ size(s, 0) >= 0
  /\ size(s, 0) = size(m, 0)
  /\ size(s, 0) = size(o, 0)
  /\ size(m, 2) = size(o, 2)
  /\ size(s, 1) = size(o, 1)

\* same_dtype comparing the two inputs only.
same_dtype_inputs_only(s, m, o) == s.dtype = m.dtype

\* The dtype check of bmm_out passes.
same_dtype(s, m, o) == ET_CHECK_SAME_DTYPE3(s, m, o)

\* BMM_TENSOR with one more case: Bool handled by the Byte kernel.
BMM_TENSOR_with_bool(scalar_type) ==
  IF scalar_type \in RealTypes THEN scalar_type
  ELSE IF scalar_type = "Bool" THEN "Byte" ELSE "default"

\* The switch of bmm_out: the CTYPE of the case taken, or "default".
BMM_TENSOR(scalar_type) ==
  IF scalar_type \in RealTypes THEN scalar_type ELSE "default"

\* kernel_returns_early looking at out alone.
kernel_returns_early_out_only(s, m, o) == numel(o) = 0

\* bmm_kernel returns before touching any data.
kernel_returns_early(s, m, o) == numel(s) = 0 \/ numel(m) = 0 \/ numel(o) = 0

\* The base offsets of batch b's slices: x, y and z of bmm_kernel's loop.
x_offset(s, m, b) == b * size(s, 1) * size(s, 2)
y_offset(s, m, b) == b * size(s, 2) * size(m, 2)
z_offset(s, m, b) == b * size(s, 1) * size(m, 2)

Abort(check) ==
  /\ pc' = "abort"
  /\ failed' = check

\* resize_out_tensor(self, mat2, out)
ResizeOutTensor ==
  /\ pc = "resize"
  /\ phases' = Append(phases, "Resolve")
  /\ IF ~resize_sizes_in_range(self, mat2)
     THEN /\ Abort("size")
          /\ UNCHANGED <<out, err>>
     ELSE \E ns \in output_size(self, mat2, out) :
            /\ err' = resize_tensor_err(out, ns)
            /\ out' = resize_tensor(out, ns)
            /\ IF resize_checked(err')
               THEN pc' = "check" /\ UNCHANGED failed
               ELSE Abort("resize")
  /\ UNCHANGED <<self, mat2, i, ctype, kernels, written, rdSelf, rdMat2,
                 call, first>>

\* check_bmm_out_args(self, mat2, out)
CheckBmmOutArgs ==
  /\ pc = "check"
  /\ phases' = Append(phases, "Validate")
  /\ IF check_bmm_out_args(self, mat2, out)
     THEN pc' = "dtype" /\ UNCHANGED failed
     ELSE Abort("args")
  /\ UNCHANGED <<self, mat2, out, i, ctype, kernels, written, rdSelf, rdMat2,
                 err, call, first>>

\* ET_CHECK_SAME_DTYPE3(self, mat2, out)
CheckSameDtype ==
  /\ pc = "dtype"
  /\ IF same_dtype(self, mat2, out)
     THEN pc' = "dispatch" /\ UNCHANGED failed
     ELSE Abort("dtype")
  /\ UNCHANGED <<self, mat2, out, i, ctype, kernels, written, rdSelf, rdMat2,
                 phases, err, call, first>>

\* switch (self.scalar_type()): call the kernel of the case, or fail.
Dispatch ==
  /\ pc = "dispatch"
  /\ IF BMM_TENSOR(self.dtype) = "default"
     THEN /\ Abort("unhandled")
          /\ UNCHANGED <<ctype, kernels, phases>>
     ELSE /\ ctype' = BMM_TENSOR(self.dtype)
          /\ kernels' = kernels + 1
          /\ phases' = Append(phases, "Compute")
          /\ pc' = "kernel"
          /\ UNCHANGED failed
  /\ UNCHANGED <<self, mat2, out, i, written, rdSelf, rdMat2, err, call,
                 first>>

\* bmm_kernel up to its loop: the early return, or i = 0.
KernelEntry ==
  /\ pc = "kernel"
  /\ IF kernel_returns_early(self, mat2, out)
     THEN pc' = "done" /\ UNCHANGED i
     ELSE pc' = "loop" /\ i' = 0
  /\ UNCHANGED <<self, mat2, out, ctype, kernels, written, rdSelf, rdMat2,
                 phases, err, failed, call, first>>

\* One iteration of bmm_kernel's loop: vec_matmul on batch i.
KernelBatch ==
  /\ pc = "loop"
  /\ i < size(self, 0)
  /\ \E r \in vec_matmul(ctype, out.data, z_offset(self, mat2, i),
                         self.data, x_offset(self, mat2, i),
                         mat2.data, y_offset(self, mat2, i),
                         size(self, 1), size(self, 2), size(mat2, 2)) :
       /\ out' = [out EXCEPT !.data = r.z]
       /\ written' = written \cup r.wr
       /\ rdSelf' = rdSelf \cup r.rx
       /\ rdMat2' = rdMat2 \cup r.ry
       /\ IF r.fault
          THEN pc' = "fault" /\ UNCHANGED i
          ELSE pc' = "loop" /\ i' = i + 1
  /\ UNCHANGED <<self, mat2, ctype, kernels, phases, err, failed, call, first>>

\* The loop of bmm_kernel ends; bmm_kernel and bmm_out return.
KernelReturn ==
  /\ pc = "loop"
  /\ i >= size(self, 0)
  /\ pc' = "done"
  /\ UNCHANGED <<self, mat2, out, i, ctype, kernels, written, rdSelf, rdMat2,
                 phases, err, failed, call, first>>

\* The caller calls bmm_out again: same self and mat2, out as it was left.
CallAgain ==
  /\ pc = "done"
  /\ call < MaxCalls
  /\ call' = call + 1
  /\ first' = IF call = 1 THEN out ELSE first
  /\ pc' = "resize"
  /\ i' = 0
  /\ ctype' = "none"
  /\ kernels' = 0
  /\ written' = {}
  /\ rdSelf' = {}
  /\ rdMat2' = {}
  /\ phases' = << >>
  /\ err' = "none"
  /\ failed' = "none"
  /\ UNCHANGED <<self, mat2, out>>

\* bmm_out(ctx, self, mat2, out)
bmm_out ==
  \/ ResizeOutTensor
  \/ CheckBmmOutArgs
  \/ CheckSameDtype
  \/ Dispatch
  \/ KernelEntry
  \/ KernelBatch
  \/ KernelReturn

Next == bmm_out \/ CallAgain

Spec == Init /\ [][Next]_vars

\* ------------------------------------------------------------- properties
Phases(ph) == {ph[k] : k \in 1..Len(ph)}
AllRank3 == dim(self) = 3 /\ dim(mat2) = 3 /\ dim(out) = 3
\* The three tensors share an element type the switch has a case for.
SharedRealType ==
  self.dtype = mat2.dtype /\ mat2.dtype = out.dtype /\ self.dtype \in RealTypes
\* self is (b,n,m), mat2 is (b,m,p), out has rank 3 and could be resized.
ValidCall ==
  /\ AllRank3
  /\ size(self, 0) = size(mat2, 0)
  /\ size(self, 2) = size(mat2, 1)
  /\ SharedRealType
  /\ err # "NotSupported"

\* Element [b][r][c] of a rank 3 tensor, row-major.
At(t, b, r, c) == t.data[(b * size(t, 1) + r) * size(t, 2) + c + 1]
\* The sum of f over 0..(n - 1).
RECURSIVE Sigma(_, _)
Sigma(f, n) == IF n = 0 THEN 0 ELSE Sigma(f, n - 1) + f[n - 1]
\* The dot product of row r of self[b] and column c of mat2[b], in the
\* arithmetic of the element type.
DotProduct(b, r, c) ==
  Wrap(self.dtype,
       Sigma([k \in 0..(size(self, 2) - 1) |->
                At(self, b, r, k) * At(mat2, b, k, c)], size(self, 2)))

\* C1: a call on inputs self (b,n,m) and mat2 (b,m,p) of one real type, with
\* out of that type, rank 3 and resizable, does not fail, and when it has
\* returned out has shape (b,n,p) and every out[i][r][c] is the dot product
\* of row r of self[i] and column c of mat2[i].
C1_ProductComputed ==
  ValidCall =>
    /\ pc \notin {"abort", "fault"}
    /\ pc = "done" =>
         /\ out.sizes = <<size(self, 0), size(self, 1), size(mat2, 2)>>
         /\ \A b \in 0..(size(self, 0) - 1), r \in 0..(size(self, 1) - 1),
               c \in 0..(size(mat2, 2) - 1) :
              At(out, b, r, c) = DotProduct(b, r, c)

\* The shapes of self, mat2 and out disagree in rank, batch, rows or columns.
ShapeViolation ==
  \/ ~AllRank3
  \/ ~(size(self, 0) = size(mat2, 0) /\ size(mat2, 0) = size(out, 0))
  \/ size(self, 1) # size(out, 1)
  \/ size(mat2, 2) # size(out, 2)

\* C2: once the resize step and the argument checks of a call have run, a
\* call whose shapes disagree (ranks not all 3, batches not all equal, rows
\* or columns of out not those of self and mat2) has ended in an error, has
\* not entered Compute and has run no kernel.
C2_ShapeMismatchRejected ==
  (pc \notin {"resize", "check"} /\ ShapeViolation) =>
    /\ pc = "abort"
    /\ "Compute" \notin Phases(phases)
    /\ kernels = 0
    /\ written = {}

\* A call with rank 3 tensors and differing batches was rejected by the
\* argument checks.
C2_Witness ==
  /\ pc = "abort"
  /\ failed = "args"
  /\ AllRank3
  /\ size(self, 0) # size(mat2, 0)

\* C3: a call that has entered Compute has self.shape[2] = mat2.shape[1].
C3_InnerDimEnforced ==
  "Compute" \in Phases(phases) => size(self, 2) = size(mat2, 1)

DtypeMismatch ==
  self.dtype # mat2.dtype \/ mat2.dtype # out.dtype \/ self.dtype # out.dtype

\* C4: a call whose three tensors do not share one element type never
\* enters Compute, and once the dtype check has run it has ended in an
\* error, whatever the shapes.
C4_DtypeMismatchRejected ==
  DtypeMismatch =>
    /\ "Compute" \notin Phases(phases)
    /\ kernels = 0
    /\ pc \notin {"dispatch", "kernel", "loop", "done", "fault"}
    /\ pc \notin {"resize", "check", "dtype"} => pc = "abort"

\* A call with valid shapes, inputs of one type and out of another was
\* rejected by the dtype check.
C4_Witness ==
  /\ pc = "abort"
  /\ failed = "dtype"
  /\ check_bmm_out_args(self, mat2, out)
  /\ size(self, 2) = size(mat2, 1)
  /\ self.dtype = mat2.dtype
  /\ out.dtype # self.dtype

\* C5: a call that did not complete successfully has written no element of
\* out.
C5_FailureWritesNothing ==
  pc \in {"abort", "fault"} => written = {}

\* C6: the phases of a call are entered in the order Resolve, Validate,
\* Compute, each at most once; Validate is entered only after the resize
\* succeeded, Compute only after the argument and dtype checks passed; a call
\* that failed in Resolve entered nothing else, one that failed in Validate
\* or at the dispatch did not enter Compute.
C6_PhaseOrder ==
  /\ phases \in {<< >>, <<"Resolve">>, <<"Resolve", "Validate">>,
                 <<"Resolve", "Validate", "Compute">>}
  /\ "Validate" \in Phases(phases) => err = "Ok"
  /\ "Compute" \in Phases(phases) =>
       ~ShapeViolation /\ ~DtypeMismatch /\ failed = "none"
  /\ failed \in {"size", "resize"} => phases = <<"Resolve">>
  /\ failed \in {"args", "dtype", "unhandled"} =>
       phases = <<"Resolve", "Validate">>

\* A call whose resize failed ended in Resolve.
C6_Witness ==
  /\ pc = "abort"
  /\ failed = "resize"
  /\ err = "NotSupported"
  /\ phases = <<"Resolve">>

C8_SecondCallIdentical ==
  call >= 2 =>
    /\ pc \notin {"abort", "fault"}
    /\ out.sizes = first.sizes
    /\ pc = "done" => out.data = first.data

C10_AccessesInBounds ==
  /\ \A o \in rdSelf : o < numel(self)
  /\ \A o \in rdMat2 : o < numel(mat2)
  /\ \A o \in written : o < numel(out)

====
